---- MODULE Spec2Model ----
(***************************************************************************)
(* dotstrap: the linking engine (src/services/linker.rs) and the pipeline  *)
(* that drives it (src/application/mod.rs), over a model of the POSIX      *)
(* filesystem calls the code makes.                                        *)
(*                                                                         *)
(* A path is the sequence of its components from the filesystem root; the  *)
(* filesystem is a partial map from paths to entries.  The process runs as *)
(* an unprivileged user on a unix build (the cfg(unix) branches), and no   *)
(* directory of the modelled tree is reached through a symbolic link.      *)
(***************************************************************************)
EXTENDS Integers, Sequences, FiniteSets, TLC

\* ------------------------------------------------------------- bounds
\* Longest manifest (number of template mappings).
MaxTemplates == 2
\* Non-dry-run invocations of link_templates in one behaviour.
MaxRuns == 2
\* Clock readings are 0..MaxClock seconds since the epoch.
MaxClock == 1
\* Times the user puts a foreign file back at a destination between runs.
MaxUserWrites == 1
\* I/O operations that fail for a reason outside the modelled tree.
MaxFaults == 1

VARIABLES
    fs,          \* the filesystem: path -> entry
    clock,       \* SystemTime::now(), whole seconds
    manifest,    \* the template mappings of the repository
    rendered,    \* RenderedSet.templates of the invocation in progress
    gen,         \* which rendering context produced `rendered`
    dry_run,     \* the dry_run argument
    pc,          \* position inside link_templates ("idle" outside)
    idx,         \* index of the loop at linker.rs:17 (1-based)
    linked,      \* the Vec<PathBuf> being built
    result,      \* "none" while running, then "ok" or "err"
    errAt,       \* the position at which the invocation failed, "" if it did not
    oplog,       \* filesystem calls that succeeded in this invocation
    runFs,       \* history: fs when the invocation started
    tplFs,       \* history: fs when the current template's processing started
    lastOk,      \* history: fs left by the last successful non-dry run
    made,        \* history: every <<path, entry>> moved into a backup
    runs,        \* non-dry-run invocations started
    userWrites,  \* foreign files put back by the user
    faults,      \* injected I/O failures
    stage,       \* position inside run_with_executor ("harness" outside)
    trace,       \* the stages entered so far, in order
    error,       \* the DotstrapError the run ended with, "" if none
    skip_brew,   \* cli.skip_brew
    values,      \* result of load_values
    secrets,     \* result of load_secrets
    context,     \* result of build_context
    brew,        \* the package stage: [plan, next, executed]
    cmds,        \* every invocation the CommandExecutor received
    report,      \* the ExecutionReport returned
    homeFs,      \* history: fs when run_with_executor was called
    call,        \* history: the last stage function called, with its inputs
    ret          \* history: what that call returned

vars == <<fs, clock, manifest, rendered, gen, dry_run, pc, idx, linked, result,
          errAt, oplog, runFs, tplFs, lastOk, made, runs, userWrites, faults,
          stage, trace, error, skip_brew, values, secrets, context, brew, cmds,
          report, homeFs, call, ret>>

\* What link_templates and its test harness never touch.
Outer == <<stage, trace, error, skip_brew, values, secrets, context, brew, cmds,
           report, homeFs, call, ret>>

\* ------------------------------------------------------------- paths
Home == <<"home">>
TmpDir == <<"tmp", "scratch">>
Join(base, rel) == base \o rel
Parent(p) == SubSeq(p, 1, Len(p) - 1)
FileName(p) == p[Len(p)]
IsPrefix(p, q) == Len(p) <= Len(q) /\ SubSeq(q, 1, Len(p)) = p

\* Option<u32>
None == [some |-> FALSE, val |-> 0]
Some(m) == [some |-> TRUE, val |-> m]

\* ------------------------------------------------------------- entries
FileEntry(content, mode) ==
    [kind |-> "file", content |-> content, mode |-> mode, target |-> <<>>]
DirEntry == [kind |-> "dir", content |-> "", mode |-> 0, target |-> <<>>]
LinkEntry(target) ==
    [kind |-> "symlink", content |-> "", mode |-> 0, target |-> target]

Put(f, p, e) == [q \in DOMAIN f \cup {p} |-> IF q = p THEN e ELSE f[q]]
Remove(f, P) == [q \in DOMAIN f \ P |-> f[q]]
Subtree(f, p) == {q \in DOMAIN f : IsPrefix(p, q)}
Rebase(q, src, dst) == dst \o SubSeq(q, Len(src) + 1, Len(q))

\* Path::is_symlink: the entry itself, not what it points to.
is_symlink(f, p) == p \in DOMAIN f /\ f[p].kind = "symlink"

\* The path a symlink-following call ends at.
RECURSIVE Resolve(_, _)
Resolve(f, p) == IF is_symlink(f, p) THEN Resolve(f, f[p].target) ELSE p

\* Path::exists and Path::is_dir follow symbolic links.
exists(f, p) == Resolve(f, p) \in DOMAIN f
is_dir(f, p) == exists(f, p) /\ f[Resolve(f, p)].kind = "dir"
is_file(f, p) == exists(f, p) /\ f[Resolve(f, p)].kind = "file"

\* The owner-write permission bit (0o200).
HasOwnerWrite(mode) == (mode \div 128) % 2 = 1

\* ------------------------------------------------------------- filesystem calls
\* Each call gives [ok, fs]: a failed call leaves the filesystem as it was.
Ok(f) == [ok |-> TRUE, fs |-> f]
Err(f) == [ok |-> FALSE, fs |-> f]

\* fs::create_dir_all: creates the missing ancestors, fails on a non-directory.
RECURSIVE create_dir_all(_, _)
create_dir_all(f, p) ==
    IF p = <<>> THEN Ok(f)
    ELSE IF p \in DOMAIN f THEN (IF is_dir(f, p) THEN Ok(f) ELSE Err(f))
    ELSE LET up == create_dir_all(f, Parent(p))
         IN  IF up.ok THEN Ok(Put(up.fs, p, DirEntry)) ELSE Err(f)

\* Mutant: the call follows the link and removes what it points to.
remove_file_Target(f, p) ==
    IF exists(f, p) /\ f[Resolve(f, p)].kind # "dir"
    THEN Ok(Remove(f, {Resolve(f, p)})) ELSE Err(f)

\* fs::remove_file: unlink(2).
remove_file(f, p) ==
    IF p \in DOMAIN f /\ f[p].kind # "dir" THEN Ok(Remove(f, {p})) ELSE Err(f)

\* Mutant: the source is removed and nothing is put at the target.
fs_rename_Drop(f, src, dst) ==
    IF src \in DOMAIN f /\ is_dir(f, Parent(dst))
    THEN Ok(Remove(f, Subtree(f, src)))
    ELSE Err(f)
\* fs::rename: rename(2).  An existing target is replaced when the kinds allow
\* it (file over file, directory over empty directory), else the call fails.
fs_rename(f, src, dst) ==
    LET srcDir == f[src].kind = "dir"
        dstDir == f[dst].kind = "dir"
        allowed == /\ src \in DOMAIN f
                   /\ is_dir(f, Parent(dst))
                   /\ dst \in DOMAIN f =>
                        IF srcDir THEN dstDir /\ Subtree(f, dst) = {dst}
                        ELSE ~dstDir
        moved == Subtree(f, src)
        kept == DOMAIN f \ (moved \cup Subtree(f, dst))
        from(q) == Rebase(q, dst, src)
    IN  IF ~allowed THEN Err(f)
        ELSE Ok([q \in kept \cup {Rebase(m, src, dst) : m \in moved} |->
                    IF IsPrefix(dst, q) THEN f[from(q)] ELSE f[q]])

\* fs::copy: open the source, open the target with O_CREAT|O_TRUNC, give it the
\* source's permission bits, copy the bytes.  Opening an existing file for
\* writing needs its owner-write bit.
fs_copy(f, from, to) ==
    LET t == Resolve(f, to)
        allowed == /\ is_file(f, from)
                   /\ is_dir(f, Parent(t))
                   /\ t \in DOMAIN f => f[t].kind = "file" /\ HasOwnerWrite(f[t].mode)
        src == f[Resolve(f, from)]
    IN  IF allowed THEN Ok(Put(f, t, FileEntry(src.content, src.mode))) ELSE Err(f)

\* fs::set_permissions: chmod(2), following symbolic links.
set_permissions(f, p, mode) ==
    LET t == Resolve(f, p)
    IN  IF t \in DOMAIN f THEN Ok(Put(f, t, [f[t] EXCEPT !.mode = mode])) ELSE Err(f)

\* std::os::unix::fs::symlink: symlink(2) never replaces an entry.
symlink(f, source, destination) ==
    IF destination \notin DOMAIN f /\ is_dir(f, Parent(destination))
    THEN Ok(Put(f, destination, LinkEntry(source)))
    ELSE Err(f)

\* ------------------------------------------------------------- inputs
\* Destinations of the mappings, relative to the home directory.
Dests == {<<".test">>, <<"cfg", "app">>}
\* mode: absent, 0o700 (owner may write), 0o444 (nobody may write).
Modes == {None, Some(448), Some(292)}
\* Rendering contexts: the same templates render differently under each.
Gens == {1, 2}
\* What occupies a destination before the first run.
Occupants == {"absent", "file", "dir", "live", "dangling"}

\* Permission bits of a file the process creates (0o666 under umask 022).
CreateMode == 420

Source(i) == <<"templates", "t" \o ToString(i - 1)>>
TemplateMapping(i, d, m) == [source |-> Source(i), destination |-> d, mode |-> m]

\* Mutant: every rendering goes to the same scratch file.
RenderedPath_Shared(i) == Join(TmpDir, <<"rendered">>)
\* format!("rendered_{idx}") under the temporary directory.
RenderedPath(i) == Join(TmpDir, <<"rendered_" \o ToString(i - 1)>>)
\* The bytes template i renders to under context g.
RenderedBytes(i, g) == "t" \o ToString(i - 1) \o "@v" \o ToString(g)

\* The scratch area render_templates leaves behind: one file per mapping.
RECURSIVE WriteScratch(_, _, _)
WriteScratch(f, n, g) ==
    IF n = 0 THEN create_dir_all(f, TmpDir).fs
    ELSE Put(WriteScratch(f, n - 1, g), RenderedPath(n),
             FileEntry(RenderedBytes(n, g), CreateMode))

RenderedSet(m) ==
    [i \in 1..Len(m) |-> [template |-> m[i], rendered_path |-> RenderedPath(i)]]

\* A file somewhere else in the home directory, the target of a live link.
ForeignTarget == Join(Home, <<"old">>)
MissingTarget == Join(Home, <<"gone">>)

\* The entries an occupant of kind o at destination d consists of.
OccupantEntries(d, o) ==
    LET p == Join(Home, d)
        ancestors == {<<SubSeq(p, 1, k), DirEntry>> : k \in 1..(Len(p) - 1)}
    IN  IF o = "absent" THEN {}
        ELSE ancestors \cup
             CASE o = "file" -> {<<p, FileEntry("orig-" \o FileName(p), CreateMode)>>}
               [] o = "dir" -> {<<p, DirEntry>>,
                                <<Join(p, <<"inner">>),
                                  FileEntry("inner-" \o FileName(p), CreateMode)>>}
               [] o = "live" -> {<<p, LinkEntry(ForeignTarget)>>}
               [] o = "dangling" -> {<<p, LinkEntry(MissingTarget)>>}

InitialHome(occ) ==
    LET pairs == {<<Home, DirEntry>>, <<<<"tmp">>, DirEntry>>,
                  <<ForeignTarget, FileEntry("old", CreateMode)>>}
                 \cup UNION {OccupantEntries(d, occ[d]) : d \in Dests}
    IN  [p \in {x[1] : x \in pairs} |-> (CHOOSE x \in pairs : x[1] = p)[2]]

EmptyFs == [p \in {} |-> DirEntry]
NoSnapshot == [valid |-> FALSE, gen |-> 0, fs |-> EmptyFs, linked |-> <<>>]

\* ------------------------------------------------------------- link_templates
stage_root == Join(Home, <<".dotstrap", "generated">>)
item == rendered[idx]
\* Mutant: the destination is placed at the top of the home root.
destination_Flat == Join(Home, <<FileName(item.template.destination)>>)
destination == Join(Home, item.template.destination)
\* Mutant: the staged copy is named by the destination's file name alone.
stage_path_Flat == Join(stage_root, <<FileName(item.template.destination)>>)
stage_path == Join(stage_root, item.template.destination)
\* Mutant: backups are kept beside the staging root.
backup_dir_AtStage == Join(Parent(stage_root), <<".dotstrap-backups">>)
backup_dir == Join(Parent(destination), <<".dotstrap-backups">>)
\* format!("{file_name}.{timestamp}.bak")
BackupName(file_name, timestamp) == file_name \o "." \o ToString(timestamp) \o ".bak"
backup_path == Join(backup_dir, <<BackupName(FileName(destination), clock)>>)

Log(op, p) == oplog' = Append(oplog, <<op, p, idx>>)
Fail == pc' = "done" /\ result' = "err" /\ errAt' = pc
History == <<runFs, lastOk, runs, userWrites, faults>>
Inputs == <<manifest, rendered, gen, dry_run, clock, Outer>>

\* Mutant: a failed call rolls the staging area back before the error returns.
Step_Rollback(r, op, p, next) ==
    IF r.ok
    THEN fs' = r.fs /\ pc' = next /\ Log(op, p) /\ UNCHANGED <<result, errAt>>
    ELSE fs' = Remove(fs, Subtree(fs, stage_root)) /\ Fail /\ UNCHANGED oplog

\* One filesystem call guarded by `?`: on success go to `next`, on failure
\* return the error at once.
Step(r, op, p, next) ==
    /\ fs' = r.fs
    /\ IF r.ok THEN pc' = next /\ Log(op, p) /\ UNCHANGED <<result, errAt>>
       ELSE Fail /\ UNCHANGED oplog

\* Mutant: the staging root is created in dry-run mode too.
EnsureStageRoot_Always(f, dry) == create_dir_all(f, stage_root)

\* linker.rs:14-16
EnsureStageRoot(f, dry) == IF dry THEN Ok(f) ELSE create_dir_all(f, stage_root)

\* linker.rs:12-16
LinkBegin ==
    /\ pc = "begin"
    /\ linked' = <<>>
    /\ IF dry_run
       THEN /\ fs' = EnsureStageRoot(fs, dry_run).fs
            /\ pc' = "loop"
            /\ UNCHANGED <<result, errAt, oplog>>
       ELSE Step(EnsureStageRoot(fs, dry_run), "create_dir_all", stage_root, "loop")
    /\ UNCHANGED <<Inputs, History, idx, tplFs, made>>

\* linker.rs:17-22 and the return at 37
LinkLoop ==
    /\ pc = "loop"
    /\ IF idx > Len(rendered)
       THEN pc' = "done" /\ result' = "ok" /\ UNCHANGED <<linked, idx, tplFs>>
       ELSE /\ linked' = Append(linked, destination)
            /\ UNCHANGED result
            /\ IF dry_run THEN idx' = idx + 1 /\ UNCHANGED <<pc, tplFs>>
               ELSE pc' = "mkparent" /\ tplFs' = fs /\ UNCHANGED idx
    /\ UNCHANGED <<Inputs, History, fs, errAt, oplog, made>>

\* Mutant: the occupant of the destination is left where it is.
CreateParent_NoReconcile ==
    /\ pc = "mkparent"
    /\ Step(create_dir_all(fs, Parent(destination)), "create_dir_all",
            Parent(destination), "mkstage")
    /\ UNCHANGED <<Inputs, History, idx, linked, tplFs, made>>
\* linker.rs:23-25
CreateParent ==
    /\ pc = "mkparent"
    /\ Step(create_dir_all(fs, Parent(destination)), "create_dir_all",
            Parent(destination), "reconcile")
    /\ UNCHANGED <<Inputs, History, idx, linked, tplFs, made>>

\* linker.rs:26-28 and reconcile_existing up to the backup directory (40-52)
Reconcile ==
    /\ pc = "reconcile"
    /\ IF ~(exists(fs, destination) \/ is_symlink(fs, destination))
       THEN pc' = "mkstage" /\ UNCHANGED <<fs, result, errAt, oplog>>
       ELSE IF is_symlink(fs, destination)
       THEN Step(remove_file(fs, destination), "remove_file", destination, "mkstage")
       ELSE Step(create_dir_all(fs, backup_dir), "create_dir_all", backup_dir, "rename")
    /\ UNCHANGED <<Inputs, History, idx, linked, tplFs, made>>

\* reconcile_existing, linker.rs:53-63
BackupRename ==
    /\ pc = "rename"
    /\ LET r == fs_rename(fs, destination, backup_path)
       IN  /\ Step(r, "rename", backup_path, "mkstage")
           /\ made' = IF r.ok
                      THEN made \cup {<<Rebase(q, destination, backup_path), fs[q]>> :
                                        q \in Subtree(fs, destination)}
                      ELSE made
    /\ UNCHANGED <<Inputs, History, idx, linked, tplFs>>

\* linker.rs:29-32
CreateStageParent ==
    /\ pc = "mkstage"
    /\ Step(create_dir_all(fs, Parent(stage_path)), "create_dir_all",
            Parent(stage_path), "copy")
    /\ UNCHANGED <<Inputs, History, idx, linked, tplFs, made>>

\* linker.rs:33
CopyStage ==
    /\ pc = "copy"
    /\ Step(fs_copy(fs, item.rendered_path, stage_path), "copy", stage_path, "chmod")
    /\ UNCHANGED <<Inputs, History, idx, linked, tplFs, made>>

\* Mutant: the non-unix branch, which ignores the mode.
apply_mode_Ignored(f, p, mode) == Ok(f)

\* apply_mode, linker.rs:66-81 (unix)
apply_mode(f, p, mode) == IF mode.some THEN set_permissions(f, p, mode.val) ELSE Ok(f)

\* linker.rs:34
ApplyMode ==
    /\ pc = "chmod"
    /\ IF item.template.mode.some
       THEN Step(apply_mode(fs, stage_path, item.template.mode), "set_permissions",
                 stage_path, "symlink")
       ELSE pc' = "symlink" /\ UNCHANGED <<fs, result, errAt, oplog>>
    /\ UNCHANGED <<Inputs, History, idx, linked, tplFs, made>>

\* create_symlink, linker.rs:83-94 (unix)
create_symlink(f, source, dest) == symlink(f, source, dest)

\* linker.rs:35-36
CreateSymlink ==
    /\ pc = "symlink"
    /\ LET r == create_symlink(fs, stage_path, destination)
       IN  /\ fs' = r.fs
           /\ IF r.ok THEN pc' = "loop" /\ idx' = idx + 1
                           /\ Log("symlink", destination)
                           /\ UNCHANGED <<result, errAt>>
              ELSE Fail /\ UNCHANGED <<oplog, idx>>
    /\ UNCHANGED <<Inputs, History, linked, tplFs, made>>

\* The call about to be made is one the code guards with `?`.
PendingIo ==
    \/ pc \in {"mkparent", "rename", "mkstage", "copy", "symlink"}
    \/ pc = "begin" /\ ~dry_run
    \/ pc = "reconcile" /\ (exists(fs, destination) \/ is_symlink(fs, destination))
    \/ pc = "chmod" /\ item.template.mode.some

\* The pending call fails for a reason outside the modelled tree (disk full,
\* I/O error): `?` returns the error at once, linker.rs:15-35.
IoFault ==
    /\ PendingIo
    /\ faults < MaxFaults
    /\ faults' = faults + 1
    /\ Fail
    /\ UNCHANGED <<Inputs, fs, idx, linked, oplog, runFs, tplFs, lastOk, made, runs,
                   userWrites>>

LinkStep ==
    \/ LinkBegin \/ LinkLoop \/ CreateParent \/ Reconcile \/ BackupRename
    \/ CreateStageParent \/ CopyStage \/ ApplyMode \/ CreateSymlink \/ IoFault

\* ------------------------------------------------------------- callers and environment
\* A caller renders the manifest under context g and invokes link_templates.
StartRun(g, d) ==
    /\ pc = "idle"
    /\ d \/ runs < MaxRuns
    /\ faults = 0
    /\ runs' = IF d THEN runs ELSE runs + 1
    /\ fs' = WriteScratch(fs, Len(manifest), g)
    /\ rendered' = RenderedSet(manifest)
    /\ gen' = g
    /\ dry_run' = d
    /\ pc' = "begin"
    /\ idx' = 1
    /\ runFs' = fs'
    /\ tplFs' = fs'
    /\ UNCHANGED <<clock, manifest, linked, result, errAt, oplog, lastOk, made,
                   userWrites, faults, Outer>>

\* The caller takes the result; dropping the RenderedSet removes the scratch area.
Return ==
    /\ pc = "done"
    /\ fs' = Remove(fs, Subtree(fs, TmpDir))
    /\ lastOk' = IF dry_run THEN lastOk
                 ELSE IF result = "ok"
                 THEN [valid |-> TRUE, gen |-> gen, fs |-> fs, linked |-> linked]
                 ELSE NoSnapshot
    /\ pc' = "idle"
    /\ rendered' = <<>>
    /\ gen' = 0
    /\ dry_run' = FALSE
    /\ idx' = 0
    /\ linked' = <<>>
    /\ result' = "none"
    /\ errAt' = ""
    /\ oplog' = <<>>
    /\ runFs' = EmptyFs
    /\ tplFs' = EmptyFs
    /\ UNCHANGED <<clock, manifest, made, runs, userWrites, faults, Outer>>

\* A second passes.
Tick ==
    /\ pc = "idle"
    /\ clock < MaxClock
    /\ clock' = clock + 1
    /\ UNCHANGED <<fs, manifest, rendered, gen, dry_run, pc, idx, linked, result,
                   errAt, oplog, runFs, tplFs, lastOk, made, runs, userWrites, faults,
                   Outer>>

\* Between runs the user replaces a managed link by a file of their own.
UserReplace(i) ==
    /\ pc = "idle"
    /\ userWrites < MaxUserWrites
    /\ LET p == Join(Home, manifest[i].destination)
       IN  /\ is_symlink(fs, p)
           /\ fs' = Put(fs, p, FileEntry("user-" \o ToString(userWrites + 1), CreateMode))
    /\ userWrites' = userWrites + 1
    /\ lastOk' = NoSnapshot
    /\ UNCHANGED <<clock, manifest, rendered, gen, dry_run, pc, idx, linked, result,
                   errAt, oplog, runFs, tplFs, made, runs, faults, Outer>>

EmptyMap == [k \in {} |-> ""]
\* `last` is what the executor returned for the latest brew invocation.
NoBrew == [plan |-> <<>>, next |-> 0, executed |-> <<>>, last |-> ""]
NoReport == [rendered |-> <<>>, linked |-> <<>>, brew_commands |-> <<>>,
             dry_run |-> FALSE, returned |-> FALSE]
NoCall == [fn |-> "none"]
NoRet == [ok |-> FALSE, err |-> "", val |-> <<>>]

\* No invocation of link_templates yet.
LinkIdle ==
    /\ clock = 0
    /\ rendered = <<>>
    /\ gen = 0
    /\ pc = "idle"
    /\ idx = 0
    /\ linked = <<>>
    /\ result = "none"
    /\ errAt = ""
    /\ oplog = <<>>
    /\ runFs = EmptyFs
    /\ tplFs = EmptyFs
    /\ lastOk = NoSnapshot
    /\ made = {}
    /\ runs = 0
    /\ userWrites = 0
    /\ faults = 0

OuterIdle ==
    /\ trace = <<>>
    /\ error = ""
    /\ values = EmptyMap
    /\ secrets = EmptyMap
    /\ context = EmptyMap
    /\ brew = NoBrew
    /\ cmds = <<>>
    /\ report = NoReport
    /\ homeFs = EmptyFs
    /\ call = NoCall
    /\ ret = NoRet

InitLink ==
    /\ \E n \in 1..MaxTemplates :
         \E ds \in [1..n -> Dests], ms \in [1..n -> Modes] :
            manifest = [i \in 1..n |-> TemplateMapping(i, ds[i], ms[i])]
    /\ \E occ \in [Dests -> Occupants] :
         /\ \A d \in Dests : (\A i \in DOMAIN manifest : manifest[i].destination # d)
                                => occ[d] = "absent"
         /\ fs = InitialHome(occ)
    /\ dry_run = FALSE
    /\ LinkIdle
    /\ stage = "harness"
    /\ skip_brew = FALSE
    /\ OuterIdle

NextLink ==
    \/ LinkStep
    \/ \E g \in Gens, d \in BOOLEAN : StartRun(g, d)
    \/ Return
    \/ Tick
    \/ \E i \in 1..MaxTemplates : i <= Len(manifest) /\ UserReplace(i)

SpecLink == InitLink /\ [][NextLink]_vars


\* ------------------------------------------------------------- configuration (config/mod.rs)
Success(v) == [ok |-> TRUE, err |-> "", val |-> v]
Failure(e) == [ok |-> FALSE, err |-> e, val |-> <<>>]

\* The single supported schema version, and the range of Manifest.version (u8).
SupportedVersion == 1
U8Max == 255

\* Every list of at most MaxTemplates mappings.
TemplateSeqs ==
    {<<>>} \cup UNION {
        {[i \in 1..n |-> TemplateMapping(i, ds[i], ms[i])] :
            ds \in [1..n -> Dests], ms \in [1..n -> Modes]} : n \in 1..MaxTemplates}

\* manifest.yaml: absent, not YAML of the expected shape, or a mapping with an
\* integer version and a (defaulted) list of templates.
ManifestFiles ==
    {[state |-> st, version |-> 0, templates |-> <<>>] : st \in {"absent", "malformed"}}
    \cup {[state |-> "yaml", version |-> v, templates |-> t] :
            v \in {-1, 0, 1, 2, 256}, t \in TemplateSeqs}

\* Mutant: the template list is examined before the version.
load_manifest_TemplatesFirst(file) ==
    IF file.state = "absent" THEN Failure("Io")
    ELSE IF file.state = "malformed" \/ file.version \notin 0..U8Max THEN Failure("Yaml")
    ELSE IF file.templates = <<>> THEN Failure("ManifestMissingTemplates")
    ELSE IF file.version # SupportedVersion THEN Failure("UnsupportedManifestVersion")
    ELSE Success(file.templates)
load_manifest(file) ==
    IF file.state = "absent" THEN Failure("Io")
    ELSE IF file.state = "malformed" \/ file.version \notin 0..U8Max THEN Failure("Yaml")
    ELSE IF file.version # SupportedVersion THEN Failure("UnsupportedManifestVersion")
    ELSE IF file.templates = <<>> THEN Failure("ManifestMissingTemplates")
    ELSE Success(file.templates)

\* values.yaml: absent, malformed, a root that is no mapping, or a mapping
\* (the one of rendering context g).
ValuesFiles ==
    {[state |-> st, isMap |-> FALSE, map |-> EmptyMap, gen |-> 0] :
        st \in {"absent", "malformed", "yaml"}}
    \cup {[state |-> "yaml", isMap |-> TRUE,
           map |-> [k \in {"name"} |-> "v" \o ToString(g)], gen |-> g] : g \in Gens}
    \cup {[state |-> "yaml", isMap |-> TRUE,
           map |-> [k \in {"name", "secrets"} |-> IF k = "name" THEN "v1" ELSE "mine"],
           gen |-> 1]}

\* Mutant: a root that is no mapping is refused.
load_values_Strict(file) ==
    IF file.state = "absent" THEN Success(EmptyMap)
    ELSE IF file.state = "malformed" \/ ~file.isMap THEN Failure("Yaml")
    ELSE Success(file.map)
load_values(file) ==
    IF file.state = "absent" THEN Success(EmptyMap)
    ELSE IF file.state = "malformed" THEN Failure("Yaml")
    ELSE IF file.isMap THEN Success(file.map)
    ELSE Success(EmptyMap)

\* brew/packages.yaml
BrewSpecs ==
    {[taps |-> t, formulae |-> f, casks |-> c] :
        t \in {<<>>, <<"homebrew/cask">>, <<"t/b", "t/a">>},
        f \in {<<>>, <<"ripgrep">>, <<"fzf", "bat">>},
        c \in {<<>>, <<"iterm2">>}}
BrewFiles ==
    {[state |-> st, spec |-> [taps |-> <<>>, formulae |-> <<>>, casks |-> <<>>]] :
        st \in {"absent", "malformed"}}
    \cup {[state |-> "yaml", spec |-> sp] : sp \in BrewSpecs}

\* Mutant: a missing package spec is an error.
load_brew_spec_Required(file) ==
    IF file.state = "absent" THEN Failure("BrewManifestMissing")
    ELSE IF file.state = "malformed" THEN Failure("Yaml")
    ELSE Success([some |-> TRUE, spec |-> file.spec])
\* Ok(None) is a success whose value has some = FALSE.
load_brew_spec(file) ==
    IF file.state = "absent" THEN Success([some |-> FALSE, spec |-> file.spec])
    ELSE IF file.state = "malformed" THEN Failure("Yaml")
    ELSE Success([some |-> TRUE, spec |-> file.spec])

\* ------------------------------------------------------------- secrets (infrastructure/secrets.rs)
Repo == <<"repo">>
\* A declared path: relative or absolute, and its components.
RelPath(parts) == [absolute |-> FALSE, parts |-> parts]
AbsPath(parts) == [absolute |-> TRUE, parts |-> parts]

\* Mutant: the home-relative marker is not recognised.
expand_path_NoMarker(path, home, repo) ==
    IF ~path.absolute THEN Join(repo, path.parts) ELSE path.parts
expand_path(path, home, repo) ==
    IF ~path.absolute /\ Len(path.parts) > 1 /\ path.parts[1] = "~"
    THEN Join(home, Tail(path.parts))
    ELSE IF ~path.absolute THEN Join(repo, path.parts)
    ELSE path.parts

\* str::trim on a text given as its sequence of characters.
IsSpace(c) == c \in {" ", "\n", "\t"}
RECURSIVE TrimStart(_)
TrimStart(t) == IF t # <<>> /\ IsSpace(Head(t)) THEN TrimStart(Tail(t)) ELSE t
RECURSIVE TrimEnd(_)
TrimEnd(t) ==
    IF t # <<>> /\ IsSpace(t[Len(t)]) THEN TrimEnd(SubSeq(t, 1, Len(t) - 1)) ELSE t
Trim(t) == TrimEnd(TrimStart(t))

EnvSecret(key, optional) ==
    [from |-> "env", key |-> key, optional |-> optional, path |-> RelPath(<<>>)]
FileSecret(path) == [from |-> "file", key |-> "", optional |-> FALSE, path |-> path]

\* secrets/secrets.yaml: absent, malformed, or a mapping name -> source.
NoEntries == [n \in {} |-> EnvSecret("", FALSE)]
SecretsFiles ==
    {[state |-> st, entries |-> NoEntries] : st \in {"absent", "malformed"}}
    \cup {[state |-> "yaml", entries |-> [n \in {"token"} |-> src]] :
            src \in {EnvSecret("DOTSTRAP_TEST_TOKEN", FALSE),
                     EnvSecret("DOTSTRAP_TEST_TOKEN", TRUE),
                     FileSecret(RelPath(<<"~", "key">>))}}
\* The process environment, and the files a secret may be read from.
Environments ==
    {[k \in {} |-> <<>>], [k \in {"DOTSTRAP_TEST_TOKEN"} |-> <<"s", "3">>]}
SecretStores ==
    {[p \in {} |-> <<>>], [p \in {Join(Home, <<"key">>)} |-> <<" ", "k", "\n">>]}

\* Larger inputs for load_secrets alone: up to two declared secrets of every
\* kind of source, and files present or not at every place a declared path
\* could be taken to mean.
SecretNames == {"alpha", "beta"}
SecretSources ==
    {EnvSecret("DOTSTRAP_TEST_TOKEN", FALSE), EnvSecret("DOTSTRAP_TEST_TOKEN", TRUE),
     FileSecret(RelPath(<<"~", "key">>)), FileSecret(RelPath(<<"etc", "key">>)),
     FileSecret(AbsPath(<<"etc", "key">>))}
AllSecretsFiles ==
    {[state |-> st, entries |-> NoEntries] : st \in {"absent", "malformed"}}
    \cup {[state |-> "yaml", entries |-> e] :
            e \in UNION {[N -> SecretSources] : N \in SUBSET SecretNames}}
KeyFiles ==
    (Join(Home, <<"key">>) :> <<" ", "h", "\n">>)
    @@ (Join(Repo, <<"etc", "key">>) :> <<"r", " ", "r", "\t">>)
    @@ (<<"etc", "key">> :> <<"\n", " ">>)
    @@ (Join(Repo, <<"~", "key">>) :> <<"x">>)
AllSecretStores == {[p \in P |-> KeyFiles[p]] : P \in SUBSET DOMAIN KeyFiles}

\* What one turn of the loop of load_secrets does with its entry.
Insert(v) == [act |-> "insert", val |-> v, err |-> ""]
Omit == [act |-> "omit", val |-> <<>>, err |-> ""]
Abort(e) == [act |-> "abort", val |-> <<>>, err |-> e]

\* Mutant: a required secret that is missing is passed over.
resolve_env_Lenient(name, src, env) ==
    IF src.key \in DOMAIN env THEN Insert(env[src.key]) ELSE Omit
\* Mutant: an optional secret that is missing becomes the empty string.
resolve_env_Blank(name, src, env) ==
    IF src.key \in DOMAIN env THEN Insert(env[src.key])
    ELSE IF src.optional THEN Insert(<<>>)
    ELSE Abort("MissingSecret " \o name \o ": environment variable " \o src.key)
\* SecretSource::Env, secrets.rs:41-52
resolve_env(name, src, env) ==
    IF src.key \in DOMAIN env THEN Insert(env[src.key])
    ELSE IF src.optional THEN Omit
    ELSE Abort("MissingSecret " \o name \o ": environment variable " \o src.key)

\* SecretSource::File, secrets.rs:53-57
resolve_file(src, files, home, repo) ==
    LET resolved == expand_path(src.path, home, repo)
    IN  IF resolved \in DOMAIN files THEN Insert(Trim(files[resolved]))
        ELSE Abort("Io")

\* Mutant: an optional secret that is missing ends the loop.
RECURSIVE resolve_entries_StopAtOmit(_, _, _, _, _)
resolve_entries_StopAtOmit(entries, order, env, files, acc) ==
    IF order = <<>> THEN Success(acc)
    ELSE LET name == Head(order)
             src == entries[name]
             r == IF src.from = "env" THEN resolve_env(name, src, env)
                  ELSE resolve_file(src, files, Home, Repo)
             with(v) == [n \in DOMAIN acc \cup {name} |-> IF n = name THEN v ELSE acc[n]]
         IN  IF r.act = "abort" THEN Failure(r.err)
             ELSE IF r.act = "omit" THEN Success(acc)
             ELSE resolve_entries_StopAtOmit(entries, Tail(order), env, files, with(r.val))
\* The loop of load_secrets over the entries in iteration order `order`.
RECURSIVE resolve_entries(_, _, _, _, _)
resolve_entries(entries, order, env, files, acc) ==
    IF order = <<>> THEN Success(acc)
    ELSE LET name == Head(order)
             src == entries[name]
             r == IF src.from = "env" THEN resolve_env(name, src, env)
                  ELSE resolve_file(src, files, Home, Repo)
             with(v) == [n \in DOMAIN acc \cup {name} |-> IF n = name THEN v ELSE acc[n]]
         IN  IF r.act = "abort" THEN Failure(r.err)
             ELSE resolve_entries(entries, Tail(order), env, files,
                                  IF r.act = "insert" THEN with(r.val) ELSE acc)

Orders(S) == {o \in [1..Cardinality(S) -> S] : \A n \in S : \E i \in DOMAIN o : o[i] = n}

load_secrets(file, order, env, files) ==
    IF file.state = "absent" THEN Success([n \in {} |-> <<>>])
    ELSE IF file.state = "malformed" THEN Failure("Yaml")
    ELSE resolve_entries(file.entries, order, env, files, [n \in {} |-> <<>>])

\* ------------------------------------------------------------- templating (services/templating.rs)
\* Mutant: a value named `secrets` is kept.
build_context_ValuesWin(vals, secs) ==
    [k \in DOMAIN vals \cup {"secrets"} |->
        IF k \in DOMAIN vals THEN [kind |-> "value", fields |-> vals[k]]
        ELSE [kind |-> "object", fields |-> secs]]
build_context(vals, secs) ==
    [k \in DOMAIN vals \cup {"secrets"} |->
        IF k = "secrets" THEN [kind |-> "object", fields |-> secs]
        ELSE [kind |-> "value", fields |-> vals[k]]]

\* What reading, compiling and rendering one template source can come to.
SourceStates == {"ok", "unreadable", "badsyntax", "badrender"}
FailureAt(e, path) == [ok |-> FALSE, err |-> e, val |-> <<>>, path |-> path]
\* engine.render of template i (which prints `name`) against the context.
render(i, ctx) ==
    "t" \o ToString(i - 1) \o "@"
        \o (IF "name" \in DOMAIN ctx THEN ctx["name"].fields ELSE "")
\* Mutant: every failure of a template is reported as a render failure.
render_one_Lumped(i, src, template_path, ctx) ==
    IF src = "ok" THEN Success(render(i, ctx)) ELSE FailureAt("Template", template_path)
\* templating.rs:46-61 for template i, whose source is in state src.
render_one(i, src, template_path, ctx) ==
    CASE src = "unreadable" -> Failure("Io")
      [] src = "badsyntax" -> FailureAt("TemplateCompile", template_path)
      [] src = "badrender" -> FailureAt("Template", template_path)
      [] OTHER -> Success(render(i, ctx))

\* ------------------------------------------------------------- brew (services/brew.rs)
\* What CommandExecutor::run returns: Ok(()), or the error of a command that
\* exited with a failure status or could not be started.
ExecutorResults == {"ok", "CommandFailed", "CommandIo"}
RECURSIVE JoinArgs(_)
JoinArgs(args) ==
    IF args = <<>> THEN ""
    ELSE IF Len(args) = 1 THEN args[1]
    ELSE args[1] \o " " \o JoinArgs(Tail(args))
\* format!("{program} {}", args.join(" "))
CommandString(c) == c[1] \o " " \o JoinArgs(Tail(c))

TapCommand(tap) == <<"brew", "tap", tap, "--force">>
FormulaCommand(formula) == <<"brew", "install", formula>>
CaskCommand(cask) == <<"brew", "install", "--cask", cask>>
\* Mutant: the formulae are installed before the taps are added.
Plan_FormulaeFirst(spec) ==
    <<<<"brew", "update">>>>
    \o [i \in DOMAIN spec.formulae |-> FormulaCommand(spec.formulae[i])]
    \o [i \in DOMAIN spec.taps |-> TapCommand(spec.taps[i])]
    \o [i \in DOMAIN spec.casks |-> CaskCommand(spec.casks[i])]
\* The commands install_brew passes to maybe_run, in order.
Plan(spec) ==
    <<<<"brew", "update">>>>
    \o [i \in DOMAIN spec.taps |-> TapCommand(spec.taps[i])]
    \o [i \in DOMAIN spec.formulae |-> FormulaCommand(spec.formulae[i])]
    \o [i \in DOMAIN spec.casks |-> CaskCommand(spec.casks[i])]
\* Mutant: an empty spec is installed like any other.
NothingToDo_Never(spec) == FALSE
NothingToDo(spec) == spec.taps = <<>> /\ spec.formulae = <<>> /\ spec.casks = <<>>

\* ------------------------------------------------------------- run_with_executor (application/mod.rs)
StageOrder ==
    <<"repository", "manifest", "values", "secrets", "context", "render", "link",
      "packages">>
LinkVars == <<rendered, pc, idx, linked, result, errAt, oplog, runFs, tplFs>>
Frozen == <<clock, lastOk, made, runs, userWrites, faults, dry_run, skip_brew, homeFs>>
Calls == <<call, ret>>

\* Mutant: an error is swallowed and the run goes on with the stage that follows.
OnError_Continue(s) ==
    IF \E i \in 1..(Len(StageOrder) - 1) : StageOrder[i] = s
    THEN StageOrder[(CHOOSE i \in 1..(Len(StageOrder) - 1) : StageOrder[i] = s) + 1]
    ELSE "failed"
\* `?`: the first error returns from run_with_executor.
OnError(s) == "failed"

\* Mutant: the scratch area is left behind when the run ends with an error.
Propagate_Leak(e) ==
    /\ error' = e
    /\ stage' = OnError(stage)
    /\ fs' = fs
\* The run ends with error e; the locals are dropped, the scratch area with them.
Propagate(e) ==
    /\ error' = e
    /\ stage' = OnError(stage)
    /\ fs' = Remove(fs, Subtree(fs, TmpDir))

Enter(s) == trace' = Append(trace, s)

\* mod.rs:40-43
ResolveHome ==
    /\ stage = "home"
    /\ \E given \in BOOLEAN, found \in BOOLEAN :
          IF given \/ found THEN stage' = "repository" /\ UNCHANGED <<error, fs>>
          ELSE Propagate("HomeNotFound")
    /\ UNCHANGED Calls
    /\ UNCHANGED <<manifest, gen, LinkVars, Frozen, trace, values, secrets, context,
                   brew, cmds, report>>

\* mod.rs:45, repository.rs:24-44
ResolveRepository ==
    /\ stage = "repository"
    /\ Enter("repository")
    /\ \E local \in BOOLEAN, cloned \in BOOLEAN :
          IF local THEN stage' = "manifest" /\ UNCHANGED <<error, fs, cmds>>
          ELSE /\ cmds' = Append(cmds, <<"git", "clone", "--depth", "1", "source", "target">>)
               /\ IF cloned THEN stage' = "manifest" /\ UNCHANGED <<error, fs>>
                  ELSE Propagate("CommandFailed")
    /\ UNCHANGED Calls
    /\ UNCHANGED <<manifest, gen, LinkVars, Frozen, values, secrets, context, brew,
                   report>>

\* mod.rs:46
LoadManifest ==
    /\ stage = "manifest"
    /\ Enter("manifest")
    /\ \E file \in ManifestFiles :
          LET r == load_manifest(file)
          IN  /\ call' = [fn |-> "load_manifest", file |-> file]
              /\ ret' = r
              /\ IF r.ok
                 THEN manifest' = r.val /\ stage' = "values" /\ UNCHANGED <<error, fs>>
                 ELSE Propagate(r.err) /\ UNCHANGED manifest
    /\ UNCHANGED <<gen, LinkVars, Frozen, values, secrets, context, brew, cmds, report>>

\* mod.rs:47
LoadValues ==
    /\ stage = "values"
    /\ Enter("values")
    /\ \E file \in ValuesFiles :
          LET r == load_values(file)
          IN  /\ call' = [fn |-> "load_values", file |-> file]
              /\ ret' = r
              /\ IF r.ok
                 THEN /\ values' = r.val
                      /\ gen' = IF r.val = EmptyMap THEN 0 ELSE file.gen
                      /\ stage' = "secrets"
                      /\ UNCHANGED <<error, fs>>
                 ELSE Propagate(r.err) /\ UNCHANGED <<values, gen>>
    /\ UNCHANGED <<manifest, LinkVars, Frozen, secrets, context, brew, cmds, report>>

\* mod.rs:48
LoadSecretsFrom(Files, Envs, Stores) ==
    /\ stage = "secrets"
    /\ Enter("secrets")
    /\ \E file \in Files, env \in Envs, files \in Stores :
          \E order \in Orders(DOMAIN file.entries) :
             LET r == load_secrets(file, order, env, files)
             IN  /\ call' = [fn |-> "load_secrets", file |-> file, order |-> order,
                             env |-> env, files |-> files]
                 /\ ret' = r
                 /\ IF r.ok
                    THEN secrets' = r.val /\ stage' = "context" /\ UNCHANGED <<error, fs>>
                    ELSE Propagate(r.err) /\ UNCHANGED secrets
    /\ UNCHANGED <<manifest, gen, LinkVars, Frozen, values, context, brew, cmds, report>>

LoadSecrets == LoadSecretsFrom(SecretsFiles, Environments, SecretStores)

\* mod.rs:49
BuildContext ==
    /\ stage = "context"
    /\ Enter("context")
    /\ context' = build_context(values, secrets)
    /\ call' = [fn |-> "build_context", values |-> values, secrets |-> secrets]
    /\ ret' = Success(context')
    /\ stage' = "render"
    /\ UNCHANGED <<fs, manifest, gen, LinkVars, Frozen, error, values, secrets, brew,
                   cmds, report>>

\* mod.rs:50, templating.rs:41-43: the temporary directory is created
RenderBegin ==
    /\ stage = "render"
    /\ Enter("render")
    /\ fs' = create_dir_all(fs, TmpDir).fs
    /\ idx' = 1
    /\ call' = [fn |-> "render_templates", reads |-> <<>>]
    /\ ret' = NoRet
    /\ stage' = "rendering"
    /\ UNCHANGED <<manifest, gen, rendered, pc, linked, result, errAt, oplog, runFs,
                   tplFs, Frozen, error, values, secrets, context, brew, cmds, report>>

\* templating.rs:45-68: one turn of the loop, and the return at 70-73, after
\* which mod.rs:51 calls link_templates
RenderTemplate ==
    /\ stage = "rendering"
    /\ IF idx > Len(manifest)
       THEN /\ rendered' = RenderedSet(manifest)
            /\ stage' = "link"
            /\ Enter("link")
            /\ pc' = "begin"
            /\ idx' = 1
            /\ runFs' = fs
            /\ tplFs' = fs
            /\ ret' = Success(rendered')
            /\ UNCHANGED <<fs, error, call>>
       ELSE /\ \E src \in SourceStates :
                 LET template_path == Join(Repo, manifest[idx].source)
                     r == render_one(idx, src, template_path, context)
                 IN  /\ call' = [call EXCEPT !.reads =
                                    Append(@, [path |-> template_path, state |-> src])]
                     /\ IF r.ok
                        THEN /\ fs' = Put(fs, RenderedPath(idx),
                                          FileEntry(r.val, CreateMode))
                             /\ idx' = idx + 1
                             /\ UNCHANGED <<stage, error, ret>>
                        ELSE Propagate(r.err) /\ ret' = r /\ UNCHANGED idx
            /\ UNCHANGED <<rendered, pc, runFs, tplFs, trace>>
    /\ UNCHANGED <<manifest, gen, linked, result, errAt, oplog, Frozen, values, secrets,
                   context, brew, cmds, report>>

\* mod.rs:51-57: the result of link_templates
AfterLink ==
    /\ stage = "link"
    /\ pc = "done"
    /\ IF result = "ok" THEN stage' = "packages" /\ UNCHANGED <<error, fs>>
       ELSE Propagate("Io")
    /\ UNCHANGED Calls
    /\ UNCHANGED <<manifest, gen, LinkVars, Frozen, trace, values, secrets, context,
                   brew, cmds, report>>

\* mod.rs:58-65 and install_brew, brew.rs:13-16
Packages ==
    /\ stage = "packages"
    /\ IF skip_brew
       THEN stage' = "report" /\ UNCHANGED <<error, fs, brew, trace, Calls>>
       ELSE /\ Enter("packages")
            /\ \E file \in BrewFiles :
                 LET r == load_brew_spec(file)
                 IN  /\ call' = [fn |-> "load_brew_spec", file |-> file]
                     /\ ret' = r
                     /\ IF ~r.ok THEN Propagate(r.err) /\ UNCHANGED brew
                        ELSE IF ~r.val.some \/ NothingToDo(r.val.spec)
                        THEN stage' = "report" /\ UNCHANGED <<error, fs, brew>>
                        ELSE /\ brew' = [plan |-> Plan(r.val.spec), next |-> 0,
                                         executed |-> <<>>, last |-> ""]
                             /\ stage' = "brew"
                             /\ UNCHANGED <<error, fs>>
    /\ UNCHANGED <<manifest, gen, LinkVars, Frozen, values, secrets, context, cmds,
                   report>>

\* ensure_available, brew.rs:17 and 49-53
EnsureAvailable ==
    /\ stage = "brew"
    /\ brew.next = 0
    /\ cmds' = Append(cmds, <<"brew", "--version">>)
    /\ \E out \in ExecutorResults :
          /\ brew' = [brew EXCEPT !.next = IF out = "ok" THEN 1 ELSE @, !.last = out]
          /\ IF out = "ok" THEN UNCHANGED <<stage, error, fs>>
             ELSE Propagate("BrewUnavailable")
    /\ UNCHANGED Calls
    /\ UNCHANGED <<manifest, gen, LinkVars, Frozen, trace, values, secrets, context,
                   report>>

\* Mutant: a dry run runs the commands as well.
MaybeRun_Eager ==
    /\ stage = "brew"
    /\ brew.next \in 1..Len(brew.plan)
    /\ LET c == brew.plan[brew.next]
           logged == [brew EXCEPT !.executed = Append(@, CommandString(c))]
       IN  /\ cmds' = Append(cmds, c)
           /\ \E out \in ExecutorResults :
                /\ brew' = [logged EXCEPT !.next = IF out = "ok" THEN @ + 1 ELSE @,
                                          !.last = out]
                /\ IF out = "ok" THEN UNCHANGED <<stage, error, fs>>
                   ELSE Propagate(out)
    /\ UNCHANGED Calls
    /\ UNCHANGED <<manifest, gen, LinkVars, Frozen, trace, values, secrets, context,
                   report>>
\* Mutant: the result of a command is dropped and the next command is run.
MaybeRun_KeepGoing ==
    /\ stage = "brew"
    /\ brew.next \in 1..Len(brew.plan)
    /\ LET c == brew.plan[brew.next]
           logged == [brew EXCEPT !.executed = Append(@, CommandString(c))]
       IN  IF dry_run
           THEN /\ brew' = [logged EXCEPT !.next = @ + 1]
                /\ UNCHANGED cmds
           ELSE /\ cmds' = Append(cmds, c)
                /\ \E out \in ExecutorResults :
                     brew' = [logged EXCEPT !.next = @ + 1, !.last = out]
    /\ UNCHANGED <<stage, error, fs, Calls>>
    /\ UNCHANGED <<manifest, gen, LinkVars, Frozen, trace, values, secrets, context,
                   report>>
\* maybe_run, brew.rs:55-68, for the next command of brew.rs:18-45
MaybeRun ==
    /\ stage = "brew"
    /\ brew.next \in 1..Len(brew.plan)
    /\ LET c == brew.plan[brew.next]
           logged == [brew EXCEPT !.executed = Append(@, CommandString(c))]
       IN  IF dry_run
           THEN /\ brew' = [logged EXCEPT !.next = @ + 1]
                /\ UNCHANGED <<stage, error, fs, cmds>>
           ELSE /\ cmds' = Append(cmds, c)
                /\ \E out \in ExecutorResults :
                     /\ brew' = [logged EXCEPT !.next = IF out = "ok" THEN @ + 1 ELSE @,
                                               !.last = out]
                     /\ IF out = "ok" THEN UNCHANGED <<stage, error, fs>>
                        ELSE Propagate(out)
    /\ UNCHANGED Calls
    /\ UNCHANGED <<manifest, gen, LinkVars, Frozen, trace, values, secrets, context,
                   report>>

\* brew.rs:46
BrewDone ==
    /\ stage = "brew"
    /\ brew.next > Len(brew.plan)
    /\ stage' = "report"
    /\ UNCHANGED Calls
    /\ UNCHANGED <<fs, manifest, gen, LinkVars, Frozen, trace, error, values, secrets,
                   context, brew, cmds, report>>

\* mod.rs:52-56 and 67-72; the locals are dropped on return
Report ==
    /\ stage = "report"
    /\ report' = [rendered |-> [i \in DOMAIN manifest |-> manifest[i].destination],
                  linked |-> linked,
                  brew_commands |-> brew.executed,
                  dry_run |-> dry_run,
                  returned |-> TRUE]
    /\ stage' = "finished"
    /\ fs' = Remove(fs, Subtree(fs, TmpDir))
    /\ UNCHANGED Calls
    /\ UNCHANGED <<manifest, gen, LinkVars, Frozen, trace, error, values, secrets,
                   context, brew, cmds>>

InitRun ==
    /\ dry_run \in BOOLEAN
    /\ skip_brew \in BOOLEAN
    /\ \E o \in {"absent", "file"} : fs = InitialHome([d \in Dests |-> o])
    /\ homeFs = fs
    /\ manifest = <<>>
    /\ LinkIdle
    /\ stage = "home"
    /\ trace = <<>>
    /\ error = ""
    /\ values = EmptyMap
    /\ secrets = EmptyMap
    /\ context = EmptyMap
    /\ brew = NoBrew
    /\ cmds = <<>>
    /\ report = NoReport
    /\ call = NoCall
    /\ ret = NoRet

NextRun ==
    \/ ResolveHome \/ ResolveRepository \/ LoadManifest \/ LoadValues \/ LoadSecrets
    \/ BuildContext \/ RenderBegin \/ RenderTemplate
    \/ LinkStep
    \/ AfterLink \/ Packages \/ EnsureAvailable \/ MaybeRun \/ BrewDone \/ Report

SpecRun == InitRun /\ [][NextRun]_vars

\* ------------------------------------------------------------- load_secrets on its own
\* run_with_executor has reached mod.rs:48 with a one-template manifest and no
\* values file; load_secrets is given the larger inputs.
InitSecrets ==
    /\ dry_run = FALSE
    /\ skip_brew = FALSE
    /\ fs = InitialHome([d \in Dests |-> "absent"])
    /\ homeFs = fs
    /\ manifest = <<TemplateMapping(1, <<".test">>, None)>>
    /\ LinkIdle
    /\ stage = "secrets"
    /\ trace = <<"repository", "manifest", "values">>
    /\ error = ""
    /\ values = EmptyMap
    /\ secrets = EmptyMap
    /\ context = EmptyMap
    /\ brew = NoBrew
    /\ cmds = <<>>
    /\ report = NoReport
    /\ call = [fn |-> "load_values",
               file |-> [state |-> "absent", isMap |-> FALSE, map |-> EmptyMap, gen |-> 0]]
    /\ ret = Success(EmptyMap)

NextSecrets ==
    \/ LoadSecretsFrom(AllSecretsFiles, Environments, AllSecretStores)
    \/ BuildContext

SpecSecrets == InitSecrets /\ [][NextSecrets]_vars

\* ------------------------------------------------------------- properties of the linking engine
InLink == pc \notin {"idle", "done"}
DestOf(i) == Join(Home, rendered[i].template.destination)
StageOf(i) == Join(Home, <<".dotstrap", "generated">> \o rendered[i].template.destination)
ModeOf(i) == rendered[i].template.mode
\* The last mapping that has the destination of mapping i.
LastWith(i) ==
    CHOOSE j \in DOMAIN rendered :
        /\ DestOf(j) = DestOf(i)
        /\ \A k \in DOMAIN rendered : DestOf(k) = DestOf(i) => k <= j
\* The staged copy mapping i leaves when its processing completes.
StagedEntry(i) ==
    FileEntry(RenderedBytes(i, gen), IF ModeOf(i).some THEN ModeOf(i).val ELSE CreateMode)
InBackups(q) == \E k \in 1..Len(q) : q[k] = ".dotstrap-backups"
BackupEntries(f) == {q \in DOMAIN f : InBackups(q)}
SamePath(f, g, q) == (q \in DOMAIN f <=> q \in DOMAIN g) /\ (q \in DOMAIN f => f[q] = g[q])
\* The loop has just finished the processing of template idx - 1.
JustLinked == pc = "loop" /\ ~dry_run /\ idx > 1
\* The template in hand is past reconcile_existing.
PastReconcile == pc \in {"mkstage", "copy", "chmod", "symlink"}

\* C1: in dry-run mode no step of link_templates changes the filesystem (the
\* staging root and the destinations' parents stay absent), the invocation
\* succeeds, and it returns the list a successful non-dry-run invocation on the
\* same rendered set returned.
C1_DryRunPurity ==
    /\ [][(InLink /\ dry_run) => fs' = fs]_vars
    /\ [](pc = "done" /\ dry_run =>
            /\ result = "ok"
            /\ fs = runFs
            /\ lastOk.valid => linked = lastOk.linked)

C1_Witness ==
    /\ pc = "done" /\ dry_run /\ Len(linked) = 2
    /\ lastOk.valid /\ lastOk.linked = linked
    /\ is_symlink(fs, linked[1])

C1_WitnessFresh ==
    /\ pc = "done" /\ dry_run /\ Len(linked) = 2
    /\ stage_root \notin DOMAIN fs
    /\ \E i \in 1..2 : Parent(linked[i]) \notin DOMAIN fs

\* C2: a second non-dry run with the same rendered content, right after a
\* successful first one, succeeds and leaves the filesystem as the first did.
C2_Idempotent ==
    (pc = "done" /\ ~dry_run /\ lastOk.valid /\ lastOk.gen = gen /\ faults = 0)
        => result = "ok" /\ fs = lastOk.fs

\* C3: a regular file or directory that occupied the destination is, once the
\* template is linked, under <parent>/.dotstrap-backups/<name>.<timestamp>.bak
\* with its original bytes, and the destination is a symlink.
C3_BackupOnDisplacement ==
    JustLinked =>
        LET d == DestOf(idx - 1)
        IN  (d \in DOMAIN tplFs /\ tplFs[d].kind \in {"file", "dir"}) =>
              /\ is_symlink(fs, d)
              /\ \E ts \in 0..MaxClock :
                    LET b == Join(Parent(d),
                                  <<".dotstrap-backups",
                                    FileName(d) \o "." \o ToString(ts) \o ".bak">>)
                    IN  \A q \in Subtree(tplFs, d) :
                          /\ Rebase(q, d, b) \in DOMAIN fs
                          /\ fs[Rebase(q, d, b)] = tplFs[q]

C3_Witness ==
    /\ JustLinked
    /\ DestOf(idx - 1) \in DOMAIN tplFs
    /\ tplFs[DestOf(idx - 1)].kind = "dir"
    /\ Len(DestOf(idx - 1)) = 3
    /\ is_symlink(fs, DestOf(idx - 1))

\* C4: every backup ever made is still where it was put, with its bytes.
C4_BackupsKept ==
    \A b \in made : b[1] \in DOMAIN fs /\ fs[b[1]] = b[2]

\* C5 as claimed: a symlink at the destination is removed without any backup,
\* what it pointed to is left as it was, and a new link to the staged copy
\* takes its place.
C5_Original ==
    /\ (PastReconcile /\ is_symlink(tplFs, destination)) =>
          destination \notin DOMAIN fs /\ BackupEntries(fs) = BackupEntries(tplFs)
    /\ JustLinked =>
          LET d == DestOf(idx - 1)
          IN  is_symlink(tplFs, d) =>
                /\ fs[d] = LinkEntry(StageOf(idx - 1))
                /\ BackupEntries(fs) = BackupEntries(tplFs)
                /\ SamePath(fs, tplFs, tplFs[d].target)

\* C5 as amended: the former target is left as it was unless it is the
\* template's own staged copy, which then holds the fresh rendering; the new
\* link exists once the template's remaining steps have succeeded.
C5_SymlinkDisposable ==
    /\ (PastReconcile /\ is_symlink(tplFs, destination)) =>
          /\ destination \notin DOMAIN fs
          /\ BackupEntries(fs) = BackupEntries(tplFs)
          /\ tplFs[destination].target # stage_path =>
                SamePath(fs, tplFs, tplFs[destination].target)
    /\ JustLinked =>
          LET d == DestOf(idx - 1)
          IN  is_symlink(tplFs, d) =>
                /\ fs[d] = LinkEntry(StageOf(idx - 1))
                /\ BackupEntries(fs) = BackupEntries(tplFs)
                /\ IF tplFs[d].target = StageOf(idx - 1)
                   THEN fs[StageOf(idx - 1)] = StagedEntry(idx - 1)
                   ELSE SamePath(fs, tplFs, tplFs[d].target)

C5_Witness ==
    /\ JustLinked
    /\ is_symlink(tplFs, DestOf(idx - 1))
    /\ tplFs[DestOf(idx - 1)].target = ForeignTarget
    /\ fs[DestOf(idx - 1)] = LinkEntry(StageOf(idx - 1))
    /\ fs[ForeignTarget].content = "old"

\* C6: after a successful non-dry run every destination is a symlink to
\* exactly home/.dotstrap/generated/<destination>, a regular file holding the
\* rendering of the last mapping with that destination; no link points into
\* the scratch area.
C6_LinkedPostcondition ==
    (pc = "done" /\ result = "ok" /\ ~dry_run) =>
        \A i \in DOMAIN rendered :
            /\ DestOf(i) \in DOMAIN fs
            /\ fs[DestOf(i)] = LinkEntry(StageOf(i))
            /\ StageOf(i) \in DOMAIN fs
            /\ fs[StageOf(i)].kind = "file"
            /\ fs[StageOf(i)].content = fs[rendered[LastWith(i)].rendered_path].content
            /\ ~IsPrefix(TmpDir, fs[DestOf(i)].target)

C6_Witness ==
    /\ pc = "done" /\ result = "ok" /\ ~dry_run
    /\ Len(rendered) = 2
    /\ DestOf(1) = DestOf(2)
    /\ fs[StageOf(1)].content = RenderedBytes(2, gen)

\* The template whose processing failed (0: before the first one).
FailedAt == IF errAt = "begin" THEN 0 ELSE idx
Failed == pc = "done" /\ result = "err" /\ ~dry_run

C7_WitnessLater ==
    /\ Failed /\ FailedAt = 1 /\ errAt = "rename" /\ Len(rendered) = 2
    /\ DestOf(1) # DestOf(2)
    /\ DestOf(2) \in DOMAIN fs /\ fs[DestOf(2)].kind = "file"

\* C10 as claimed: after a successful non-dry run the staged copy of every
\* mapping with a mode has that mode.
C10_Original ==
    (pc = "done" /\ result = "ok" /\ ~dry_run) =>
        \A i \in DOMAIN rendered :
            ModeOf(i).some => fs[StageOf(i)].mode = ModeOf(i).val

\* The apply_mode step changes the permission bits of the staged copy and
\* nothing else; for a mapping without mode it changes nothing.
ModeFrame ==
    pc = "chmod" =>
        /\ DOMAIN fs' = DOMAIN fs
        /\ \A q \in DOMAIN fs :
              IF q = StageOf(idx) /\ ModeOf(idx).some
              THEN fs'[q] = [fs[q] EXCEPT !.mode = fs'[q].mode]
              ELSE fs'[q] = fs[q]

\* C10 as amended: the staged copy has the mode of the last mapping with its
\* destination (the permission bits of the scratch file if that mapping has
\* none); only the staged copy is ever changed by apply_mode.
C10_FileMode ==
    /\ [](pc = "done" /\ result = "ok" /\ ~dry_run =>
            \A i \in DOMAIN rendered :
                /\ fs[StageOf(i)].mode =
                      IF ModeOf(LastWith(i)).some THEN ModeOf(LastWith(i)).val
                      ELSE fs[rendered[LastWith(i)].rendered_path].mode
                /\ fs[rendered[i].rendered_path].mode = CreateMode)
    /\ [][ModeFrame]_vars

C10_Witness ==
    /\ pc = "done" /\ result = "ok" /\ ~dry_run
    /\ Len(rendered) = 2
    /\ DestOf(1) # DestOf(2)
    /\ ModeOf(1) = Some(448) /\ fs[StageOf(1)].mode = 448
    /\ ~ModeOf(2).some /\ fs[StageOf(2)].mode = CreateMode

\* ------------------------------------------------------------- properties of the pipeline
Range(s) == {s[i] : i \in DOMAIN s}
\* The part of a filesystem that lies under the home root.
HomeTree(f) == [q \in Subtree(f, Home) |-> f[q]]
BrewIssued == \E i \in DOMAIN cmds : cmds[i][1] = "brew"

\* C8: the stages of run_with_executor run in the order repository, manifest,
\* values, secrets, context, render, link, packages; the first error ends the
\* run and no step follows it; until linking starts the home directory is as
\* the run found it, and no brew command is issued before package installation
\* starts, so an error of the manifest, values, secrets or render stage (an
\* empty manifest included, dry run or not) leaves the home directory
\* untouched and brew uncalled.
C8_PipelineOrder ==
    /\ [](\A i \in DOMAIN trace : i <= Len(StageOrder) /\ trace[i] = StageOrder[i])
    /\ [](error # "" => stage = "failed")
    /\ [][stage # "failed"]_vars
    /\ []("link" \notin Range(trace) => HomeTree(fs) = HomeTree(homeFs))
    /\ [](BrewIssued => "packages" \in Range(trace))
    /\ []((error # "" /\ trace # <<>>
              /\ trace[Len(trace)] \in {"manifest", "values", "secrets", "render"}) =>
            HomeTree(fs) = HomeTree(homeFs) /\ ~BrewIssued)

C8_Witness ==
    /\ stage = "failed"
    /\ error = "ManifestMissingTemplates"
    /\ dry_run
    /\ trace = <<"repository", "manifest">>
    /\ HomeTree(fs) = HomeTree(homeFs)
    /\ cmds = <<>>

\* C9: link_templates returns, dry run or not, one entry per rendered template,
\* entry i being the home root joined with the destination of mapping i, in
\* manifest order; in the report `linked` is as long as `rendered` and
\* linked[i] is the home root joined with rendered[i].
C9_DestinationList ==
    /\ (pc = "done" /\ result = "ok") =>
          /\ Len(linked) = Len(manifest)
          /\ Len(rendered) = Len(manifest)
          /\ \A i \in DOMAIN linked :
                linked[i] = Home \o rendered[i].template.destination
          /\ \A i \in DOMAIN rendered : rendered[i].template = manifest[i]
    /\ report.returned =>
          /\ Len(report.linked) = Len(report.rendered)
          /\ \A i \in DOMAIN report.linked :
                report.linked[i] = Home \o report.rendered[i]
          /\ report.rendered = [i \in DOMAIN manifest |-> manifest[i].destination]

C9_Witness ==
    /\ report.returned
    /\ dry_run
    /\ Len(report.linked) = 2
    /\ report.rendered = <<<<"cfg", "app">>, <<".test">>>>
    /\ report.linked = <<<<"home", "cfg", "app">>, <<"home", ".test">>>>

\* ------------------------------------------------------------- properties of rendering
\* What template i prints for the loaded values.
ExpectedRendering(i) ==
    "t" \o ToString(i - 1) \o "@" \o (IF "name" \in DOMAIN values THEN values["name"] ELSE "")

\* C11: when every template reads, compiles and renders, render_templates
\* returns one entry per mapping, in manifest order, entry i carrying mapping i
\* and a scratch file of its own that holds the rendering of mapping i's
\* source against the context.
C11_RenderedSet ==
    (call.fn = "render_templates" /\ ret.ok) =>
        /\ rendered = ret.val
        /\ Len(ret.val) = Len(manifest)
        /\ \A i \in DOMAIN ret.val : ret.val[i].template = manifest[i]
        /\ \A i, j \in DOMAIN ret.val :
              i # j => ret.val[i].rendered_path # ret.val[j].rendered_path
        /\ \A k \in DOMAIN call.reads :
              call.reads[k] = [path |-> Repo \o manifest[k].source, state |-> "ok"]
        /\ stage = "link" =>
              \A i \in DOMAIN ret.val :
                 /\ ret.val[i].rendered_path \in DOMAIN fs
                 /\ IsPrefix(TmpDir, ret.val[i].rendered_path)
                 /\ fs[ret.val[i].rendered_path].kind = "file"
                 /\ fs[ret.val[i].rendered_path].content = ExpectedRendering(i)

C11_Witness ==
    /\ call.fn = "render_templates" /\ ret.ok
    /\ stage = "link" /\ pc = "begin"
    /\ Len(ret.val) = 2
    /\ fs[<<"tmp", "scratch", "rendered_0">>].content = "t0@v2"
    /\ fs[<<"tmp", "scratch", "rendered_1">>].content = "t1@v2"

\* C12: render_templates stops at the first mapping, in manifest order, whose
\* source cannot be read, compiled or rendered: no later source is read, no
\* RenderedSet is returned, and the error is an I/O error, a compilation error
\* with the template's path, or a render error with that path.
C12_RenderFailFast ==
    (call.fn = "render_templates" /\ call.reads # <<>>) =>
        LET n == Len(call.reads)
            last == call.reads[n]
        IN  /\ n <= Len(manifest)
            /\ \A k \in 1..n : call.reads[k].path = Repo \o manifest[k].source
            /\ \A k \in 1..(n - 1) : call.reads[k].state = "ok"
            /\ last.state # "ok" =>
                  /\ stage = "failed"
                  /\ ~ret.ok
                  /\ error = ret.err
                  /\ rendered = <<>>
                  /\ last.state = "unreadable" => ret.err = "Io"
                  /\ last.state = "badsyntax" =>
                        ret.err = "TemplateCompile" /\ ret.path = Repo \o manifest[n].source
                  /\ last.state = "badrender" =>
                        ret.err = "Template" /\ ret.path = Repo \o manifest[n].source

C12_Witness ==
    /\ call.fn = "render_templates"
    /\ stage = "failed"
    /\ Len(manifest) = 2
    /\ Len(call.reads) = 1
    /\ error = "TemplateCompile"
    /\ ret.path = <<"repo", "templates", "t0">>

\* ------------------------------------------------------------- properties of the context
\* C13: build_context never fails; its result is an object whose key `secrets`
\* holds an object with exactly the entries of the secrets argument, also when
\* the values have a key of that name, and whose other keys are the keys of
\* the values with their values.  The result is this function of the two
\* arguments, so equal arguments give equal results.
C13_BuildContext ==
    call.fn = "build_context" =>
        /\ ret.ok
        /\ context = ret.val
        /\ stage # "failed"
        /\ DOMAIN ret.val = DOMAIN call.values \cup {"secrets"}
        /\ ret.val["secrets"] = [kind |-> "object", fields |-> call.secrets]
        /\ \A k \in DOMAIN call.values \ {"secrets"} :
              ret.val[k] = [kind |-> "value", fields |-> call.values[k]]

C13_Witness ==
    /\ call.fn = "build_context"
    /\ call.values = [k \in {"name", "secrets"} |-> IF k = "name" THEN "v1" ELSE "mine"]
    /\ call.secrets = [n \in {"token"} |-> <<"s", "3">>]
    /\ context["secrets"].fields = call.secrets
    /\ context["name"].fields = "v1"

\* ------------------------------------------------------------- properties of the configuration
\* The manifest file deserialises into a Manifest (its version fits a u8).
ManifestParses(f) == f.state = "yaml" /\ f.version \in 0..255

\* C14: load_manifest succeeds exactly when the file is readable, parses, has
\* version 1 and at least one template, so a loaded manifest is never empty;
\* otherwise the first failing check, in the order read, parse, version,
\* templates, gives the error: an unsupported version without templates is
\* reported as an unsupported version.
C14_LoadManifest ==
    /\ call.fn = "load_manifest" =>
          LET f == call.file
          IN  /\ ret.ok <=> (ManifestParses(f) /\ f.version = 1 /\ f.templates # <<>>)
              /\ ret.ok => ret.val = f.templates /\ manifest = ret.val
              /\ ~ret.ok =>
                    /\ stage = "failed" /\ error = ret.err
                    /\ ret.err = IF f.state = "absent" THEN "Io"
                                 ELSE IF ~ManifestParses(f) THEN "Yaml"
                                 ELSE IF f.version # 1 THEN "UnsupportedManifestVersion"
                                 ELSE "ManifestMissingTemplates"
    /\ (trace # <<>> /\ trace[Len(trace)] \notin {"repository", "manifest"}) =>
          manifest # <<>>

C14_Witness ==
    /\ call.fn = "load_manifest"
    /\ call.file.state = "yaml"
    /\ call.file.version = 2
    /\ call.file.templates = <<>>
    /\ error = "UnsupportedManifestVersion"

\* C15 as claimed: a well-formed manifest whose version is any integer other
\* than 1 is refused with the unsupported-version error.
C15_AnyOtherVersion ==
    (call.fn = "load_manifest" /\ call.file.state = "yaml"
        /\ call.file.templates # <<>> /\ call.file.version # 1) =>
        ~ret.ok /\ ret.err = "UnsupportedManifestVersion"

\* C16: load_values returns the empty mapping when the values file is absent
\* or its root is no mapping, fails with a parse error when the file is
\* malformed, and otherwise returns exactly the entries of the root mapping.
C16_LoadValues ==
    call.fn = "load_values" =>
        LET f == call.file
        IN  /\ f.state = "absent" => ret.ok /\ DOMAIN ret.val = {}
            /\ (f.state = "yaml" /\ ~f.isMap) => ret.ok /\ DOMAIN ret.val = {}
            /\ f.state = "malformed" =>
                  ~ret.ok /\ ret.err = "Yaml" /\ stage = "failed" /\ error = "Yaml"
            /\ (f.state = "yaml" /\ f.isMap) => ret.ok /\ ret.val = f.map
            /\ ret.ok => values = ret.val /\ stage = "secrets"

C16_Witness ==
    /\ call.fn = "load_values"
    /\ call.file.state = "yaml"
    /\ ~call.file.isMap
    /\ ret.ok
    /\ DOMAIN values = {}
    /\ stage = "secrets"

\* ------------------------------------------------------------- properties of secret resolution
\* The file a declared path stands for.
DeclaredLocation(path) ==
    IF ~path.absolute /\ Len(path.parts) > 1 /\ path.parts[1] = "~"
    THEN <<"home">> \o Tail(path.parts)
    ELSE IF ~path.absolute THEN <<"repo">> \o path.parts
    ELSE path.parts
\* The declared secrets of the last load_secrets call, by what becomes of them.
Declared == IF call.file.state = "yaml" THEN DOMAIN call.file.entries ELSE {}
EnvUnset(n) ==
    call.file.entries[n].from = "env" /\ call.file.entries[n].key \notin DOMAIN call.env
RequiredUnset == {n \in Declared : EnvUnset(n) /\ ~call.file.entries[n].optional}
OptionalUnset == {n \in Declared : EnvUnset(n) /\ call.file.entries[n].optional}
FileUnreadable ==
    {n \in Declared : /\ call.file.entries[n].from = "file"
                      /\ DeclaredLocation(call.file.entries[n].path) \notin DOMAIN call.files}
Failing == RequiredUnset \cup FileUnreadable
MissingSecretError(n) ==
    "MissingSecret " \o n \o ": environment variable " \o call.file.entries[n].key
\* The first failing secret in the order of iteration.
FirstFailing ==
    call.order[CHOOSE k \in DOMAIN call.order :
                  /\ call.order[k] \in Failing
                  /\ \A j \in 1..(k - 1) : call.order[j] \notin Failing]

\* C17 as claimed: with a required environment secret unset, load_secrets
\* fails with the missing-secret error of such a secret and returns nothing.
C17_Original ==
    (call.fn = "load_secrets" /\ RequiredUnset # {}) =>
        /\ ~ret.ok
        /\ \E n \in RequiredUnset : ret.err = MissingSecretError(n)
        /\ DOMAIN secrets = {}

\* C17 as amended: load_secrets fails and returns nothing; the error is that
\* of the first failing entry in iteration order, the missing-secret error
\* naming a required secret and its environment variable, or the I/O error of
\* a file secret that cannot be read.
C17_RequiredSecret ==
    (call.fn = "load_secrets" /\ RequiredUnset # {}) =>
        /\ ~ret.ok
        /\ stage = "failed"
        /\ error = ret.err
        /\ DOMAIN secrets = {}
        /\ ret.err = IF FirstFailing \in RequiredUnset
                     THEN MissingSecretError(FirstFailing)
                     ELSE "Io"

C17_Witness ==
    /\ call.fn = "load_secrets"
    /\ call.order = <<"beta", "alpha">>
    /\ call.file.entries["beta"].from = "file"
    /\ FileUnreadable = {}
    /\ RequiredUnset = {"alpha"}
    /\ error = "MissingSecret alpha: environment variable DOTSTRAP_TEST_TOKEN"
    /\ DOMAIN secrets = {}

\* C18: an optional environment secret whose variable is unset does not make
\* load_secrets fail and does not stop the other secrets from being resolved:
\* the call succeeds unless another entry fails, and the mapping returned has
\* an entry for exactly the other declared secrets, none for the optional one.
C18_OptionalSecret ==
    (call.fn = "load_secrets" /\ OptionalUnset # {}) =>
        /\ ret.ok <=> Failing = {}
        /\ ret.ok =>
              /\ secrets = ret.val
              /\ stage # "failed"
              /\ DOMAIN ret.val = Declared \ OptionalUnset
              /\ \A n \in DOMAIN ret.val :
                    call.file.entries[n].from = "env" =>
                       ret.val[n] = call.env[call.file.entries[n].key]

C18_Witness ==
    /\ call.fn = "load_secrets"
    /\ call.order = <<"alpha", "beta">>
    /\ OptionalUnset = {"alpha"}
    /\ call.file.entries["beta"].from = "file"
    /\ ret.ok
    /\ DOMAIN secrets = {"beta"}

\* C19: absence is success in exactly four cases. A missing values file gives
\* the empty mapping, a missing secrets declaration gives the empty mapping, a
\* missing package spec gives none (and nothing is installed), and an optional
\* env secret whose variable is unset is omitted; in each of them the run goes
\* on. A missing manifest, a missing template source, a missing file behind a
\* file secret and an unset required variable each fail their stage with an
\* error, and the run stops there.
LastRead == call.reads[Len(call.reads)]
C19_Absence ==
    /\ (call.fn = "load_values" /\ call.file.state = "absent") =>
          /\ ret.ok /\ DOMAIN ret.val = {}
          /\ DOMAIN values = {} /\ stage = "secrets" /\ error = ""
    /\ (call.fn = "load_secrets" /\ call.file.state = "absent") =>
          /\ ret.ok /\ DOMAIN ret.val = {}
          /\ DOMAIN secrets = {} /\ stage = "context" /\ error = ""
    /\ (call.fn = "load_brew_spec" /\ call.file.state = "absent") =>
          /\ ret.ok /\ ~ret.val.some
          /\ brew = NoBrew /\ stage \in {"report", "finished"} /\ error = ""
    /\ (call.fn = "load_secrets" /\ OptionalUnset # {} /\ Failing = {}) =>
          /\ ret.ok /\ DOMAIN ret.val = Declared \ OptionalUnset
          /\ secrets = ret.val /\ stage = "context" /\ error = ""
    /\ (call.fn = "load_manifest" /\ call.file.state = "absent") =>
          /\ ~ret.ok /\ ret.err = "Io"
          /\ stage = "failed" /\ error = "Io" /\ manifest = <<>>
    /\ (call.fn = "render_templates" /\ call.reads # <<>>
            /\ LastRead.state = "unreadable") =>
          /\ ~ret.ok /\ ret.err = "Io"
          /\ stage = "failed" /\ error = "Io"
    /\ (call.fn = "load_secrets" /\ FileUnreadable # {}) =>
          /\ ~ret.ok
          /\ stage = "failed" /\ error = ret.err /\ DOMAIN secrets = {}
          /\ Declared = FileUnreadable => ret.err = "Io"
    /\ (call.fn = "load_secrets" /\ RequiredUnset # {}) =>
          /\ ~ret.ok
          /\ stage = "failed" /\ error = ret.err /\ DOMAIN secrets = {}
          /\ \A n \in Declared : Declared = {n} => ret.err = MissingSecretError(n)

\* A run that found no values file content, no secrets and no package spec,
\* and still returned its report.
C19_Witness ==
    /\ call.fn = "load_brew_spec"
    /\ call.file.state = "absent"
    /\ DOMAIN values = {}
    /\ DOMAIN secrets = {}
    /\ ret.ok
    /\ stage = "finished"
    /\ report.returned

\* C20: the value of a file secret is the content of the file its declared
\* path stands for, without its leading and trailing whitespace: a path that
\* begins with `~/` stands for home joined with the remainder, another
\* relative path for the repository root joined with the path, an absolute
\* path for itself. No other file is read: the call fails exactly when a
\* declared file is missing at that place or a required variable is unset.
Trimmed ==
    (<<"home", "key">> :> <<"h">>)
    @@ (<<"repo", "etc", "key">> :> <<"r", " ", "r">>)
    @@ (<<"etc", "key">> :> <<>>)
    @@ (<<"repo", "~", "key">> :> <<"x">>)
FileSecrets == {n \in Declared : call.file.entries[n].from = "file"}
C20_FileSecret ==
    (call.fn = "load_secrets" /\ FileSecrets # {}) =>
        /\ ret.ok <=> Failing = {}
        /\ ret.ok =>
              \A n \in FileSecrets :
                 LET at == DeclaredLocation(call.file.entries[n].path)
                 IN  /\ n \in DOMAIN ret.val
                     /\ at \in DOMAIN call.files
                     /\ ret.val[n] = Trimmed[at]
                     /\ secrets[n] = ret.val[n]

\* Both a home-relative and an absolute path are resolved in one call, with
\* decoy files present at the repository-relative readings of both.
C20_Witness ==
    /\ call.fn = "load_secrets"
    /\ ret.ok
    /\ DOMAIN call.files = DOMAIN KeyFiles
    /\ call.file.entries = [n \in {"alpha", "beta"} |->
                               IF n = "alpha" THEN FileSecret(RelPath(<<"~", "key">>))
                               ELSE FileSecret(AbsPath(<<"etc", "key">>))]
    /\ secrets["alpha"] = <<"h">>
    /\ secrets["beta"] = <<>>

\* ------------------------------------------------------------- properties of package installation
\* The invocations of brew the executor has received, in order.
BrewCalls == SelectSeq(cmds, LAMBDA c : c[1] = "brew")
\* The package spec install_brew was called with, if it was.
Installing ==
    /\ call.fn = "load_brew_spec"
    /\ ret.ok
    /\ ret.val.some
    /\ \/ ret.val.spec.taps # <<>>
       \/ ret.val.spec.formulae # <<>>
       \/ ret.val.spec.casks # <<>>
IsTap(c, tap) == Len(c) >= 3 /\ c[1] = "brew" /\ c[2] = "tap" /\ c[3] = tap
IsFormula(c, formula) == c = <<"brew", "install", formula>>
IsCask(c, cask) == c = <<"brew", "install", "--cask", cask>>
\* Invocation k (counted from the version check, k = 1) is the one that
\* belongs there: version check, update, taps, formulae, casks.
InOrder(spec, k, c) ==
    LET nt == Len(spec.taps)
        nf == Len(spec.formulae)
    IN  IF k = 1 THEN c = <<"brew", "--version">>
        ELSE IF k = 2 THEN c = <<"brew", "update">>
        ELSE IF k <= 2 + nt THEN IsTap(c, spec.taps[k - 2])
        ELSE IF k <= 2 + nt + nf THEN IsFormula(c, spec.formulae[k - 2 - nt])
        ELSE /\ k <= 2 + nt + nf + Len(spec.casks)
             /\ IsCask(c, spec.casks[k - 2 - nt - nf])
CommandCount(spec) == 2 + Len(spec.taps) + Len(spec.formulae) + Len(spec.casks)

\* C21: for a non-empty spec and a run that is not a dry run, the brew
\* invocations the executor receives are, at every moment, the first ones of
\* the sequence `brew --version`, `brew update`, a tap command per tap in
\* declared order, an install per formula in declared order, a cask install per
\* cask in declared order; the list of commands install_brew keeps has one
\* string for each invocation after the version check, in the same order; and
\* when install_brew has returned successfully the sequence is complete and
\* the list is the one reported.
C21_BrewOrder ==
    (Installing /\ ~dry_run) =>
        LET spec == ret.val.spec
        IN  /\ \A k \in DOMAIN BrewCalls : InOrder(spec, k, BrewCalls[k])
            /\ Len(brew.executed) = IF BrewCalls = <<>> THEN 0 ELSE Len(BrewCalls) - 1
            /\ \A k \in DOMAIN brew.executed :
                  brew.executed[k] = CommandString(BrewCalls[k + 1])
            /\ stage \in {"report", "finished"} => Len(BrewCalls) = CommandCount(spec)
            /\ stage = "finished" => report.brew_commands = brew.executed

\* Two taps, two formulae and a cask, all installed, and the run has returned.
C21_Witness ==
    /\ Installing
    /\ ~dry_run
    /\ stage = "finished"
    /\ ret.val.spec = [taps |-> <<"t/b", "t/a">>, formulae |-> <<"fzf", "bat">>,
                       casks |-> <<"iterm2">>]
    /\ Len(BrewCalls) = 7
    /\ Len(report.brew_commands) = 6
    /\ report.brew_commands[2] = "brew tap t/b --force"

\* C22: for each tap T of the spec, the executor is invoked with the program
\* brew and the arguments exactly tap, T: once the taps have been added, the
\* invocations that follow `brew update` are <<brew, tap, T>> for the taps T in
\* turn, with no further argument.
C22_TapArguments ==
    (Installing /\ ~dry_run) =>
        \A k \in DOMAIN ret.val.spec.taps :
            k + 2 <= Len(BrewCalls) =>
               BrewCalls[k + 2] = <<"brew", "tap", ret.val.spec.taps[k]>>

\* C23: the executor receives a brew command, the availability check
\* included, only if skip_brew is false, the package spec file exists and one
\* of taps, formulae, casks is non-empty; in every other case no command is
\* logged and the reported list of brew commands is empty; and with skip_brew
\* set the package spec file is not read.
C23_BrewOnlyWhenNeeded ==
    /\ BrewIssued => ~skip_brew /\ Installing /\ call.file.state = "yaml"
    /\ ~Installing =>
          /\ brew = NoBrew
          /\ stage = "finished" => report.brew_commands = <<>>
    /\ skip_brew =>
          /\ call.fn # "load_brew_spec"
          /\ "packages" \notin Range(trace)
          /\ ~BrewIssued

\* A run that read a package spec with three empty lists and returned.
C23_Witness ==
    /\ ~skip_brew
    /\ ~dry_run
    /\ call.fn = "load_brew_spec"
    /\ call.file.state = "yaml"
    /\ call.file.spec = [taps |-> <<>>, formulae |-> <<>>, casks |-> <<>>]
    /\ stage = "finished"
    /\ report.brew_commands = <<>>
    /\ ~BrewIssued

\* A run with skip_brew set has returned without reading the package spec.
C23_WitnessSkipped ==
    /\ skip_brew
    /\ stage = "finished"
    /\ call.fn = "render_templates"
    /\ report.brew_commands = <<>>

\* C24: install_brew fails fast. If the executor returns an error for
\* `brew --version`, install_brew returns the brew-unavailable error, whatever
\* the executor's error was, and that invocation is the only one; if it
\* returns an error for a later command, install_brew returns that error. In
\* both cases nothing has been asked of the executor since, and the command
\* that failed is the last one logged; install_brew fails in no other way.
CommandError == brew.last \notin {"", "ok"}
C24_BrewFailFast ==
    /\ [](Installing =>
            /\ CommandError <=> stage = "failed"
            /\ CommandError =>
                  /\ Len(BrewCalls) = 1 =>
                        /\ error = "BrewUnavailable"
                        /\ BrewCalls = <<<<"brew", "--version">>>>
                        /\ brew.executed = <<>>
                  /\ Len(BrewCalls) > 1 =>
                        /\ error = brew.last
                        /\ ~dry_run
                        /\ Len(brew.executed) = Len(BrewCalls) - 1
                  /\ report = NoReport)
    /\ [][CommandError => cmds' = cmds /\ brew' = brew]_vars

\* The second of two taps fails to be added, for a command that cannot be started.
C24_Witness ==
    /\ Installing
    /\ stage = "failed"
    /\ error = "CommandIo"
    /\ ret.val.spec.taps = <<"t/b", "t/a">>
    /\ ret.val.spec.formulae # <<>>
    /\ Len(BrewCalls) = 4
    /\ brew.executed = <<"brew update", "brew tap t/b --force", "brew tap t/a --force">>

\* The version check fails in a dry run.
C24_WitnessUnavailable ==
    /\ Installing
    /\ dry_run
    /\ stage = "failed"
    /\ error = "BrewUnavailable"
    /\ brew.last = "CommandFailed"
    /\ Len(BrewCalls) = 1

\* The list a fully successful install_brew returns for a spec.
ExpectedLog(spec) ==
    <<"brew update">>
    \o [i \in DOMAIN spec.taps |-> "brew tap " \o spec.taps[i] \o " --force"]
    \o [i \in DOMAIN spec.formulae |-> "brew install " \o spec.formulae[i]]
    \o [i \in DOMAIN spec.casks |-> "brew install --cask " \o spec.casks[i]]
Returned == stage \in {"report", "finished"}

\* C25 as claimed: with dry_run set and a non-empty spec, install_brew returns
\* the command list of a fully successful run that is not a dry run, and the
\* executor is asked for no update, tap or install.
C25_Original ==
    /\ (Installing /\ Returned /\ ~dry_run) => brew.executed = ExpectedLog(ret.val.spec)
    /\ (Installing /\ dry_run) =>
          /\ stage # "failed"
          /\ Returned => brew.executed = ExpectedLog(ret.val.spec)
          /\ \A k \in DOMAIN BrewCalls : BrewCalls[k] = <<"brew", "--version">>

\* C25: with dry_run set and a non-empty spec, the only thing install_brew
\* asks of the executor is the availability check `brew --version`, once. If
\* the check succeeds install_brew returns the command list of a fully
\* successful run that is not a dry run, and that list is reported; if it
\* fails install_brew returns the brew-unavailable error and no list.
C25_DryRun ==
    /\ (Installing /\ Returned) => brew.executed = ExpectedLog(ret.val.spec)
    /\ (Installing /\ dry_run) =>
          /\ Len(BrewCalls) <= 1
          /\ \A k \in DOMAIN BrewCalls : BrewCalls[k] = <<"brew", "--version">>
          /\ Returned => BrewCalls # <<>> /\ brew.last = "ok"
          /\ stage = "finished" => report.brew_commands = ExpectedLog(ret.val.spec)
          /\ stage = "failed" =>
                /\ error = "BrewUnavailable"
                /\ brew.executed = <<>>
                /\ report = NoReport

C25_Witness ==
    /\ Installing
    /\ dry_run
    /\ stage = "finished"
    /\ ret.val.spec = [taps |-> <<"t/b", "t/a">>, formulae |-> <<"ripgrep">>,
                       casks |-> <<"iterm2">>]
    /\ report.brew_commands =
          <<"brew update", "brew tap t/b --force", "brew tap t/a --force",
            "brew install ripgrep", "brew install --cask iterm2">>
    /\ BrewCalls = <<<<"brew", "--version">>>>

\* ------------------------------------------------------------- further properties of the linking engine
\* C26: a symlink at the destination is taken for a link of an earlier run,
\* and removed without backup, only if its target lies beneath the staging
\* root; a symlink to anywhere else is a foreign entry and is backed up, so
\* that after reconciliation the link is an entry of the backup directory.
C26_OwnershipTest ==
    (PastReconcile /\ is_symlink(tplFs, destination)) =>
        IF IsPrefix(stage_root, tplFs[destination].target)
        THEN /\ destination \notin DOMAIN fs
             /\ BackupEntries(fs) = BackupEntries(tplFs)
        ELSE \E b \in BackupEntries(fs) \ BackupEntries(tplFs) :
                fs[b] = tplFs[destination]

\* The step a logged filesystem call belongs to: 1 parents of the destination,
\* 2 displacement, 3 staged copy, 4 mode, 5 symlink.
StepOf(e) ==
    CASE e[1] = "symlink" -> 5
      [] e[1] = "set_permissions" -> 4
      [] e[1] = "copy" -> 3
      [] e[1] \in {"remove_file", "rename"} -> 2
      [] OTHER -> IF e[2] = Parent(DestOf(e[3])) THEN 1
                  ELSE IF FileName(e[2]) = ".dotstrap-backups" THEN 2
                  ELSE 3
\* Call x belongs to an earlier template than call y, or to an earlier step of
\* the same template; steps 2 and 3 take two calls each.
Precedes(x, y) ==
    \/ x[3] < y[3]
    \/ x[3] = y[3] /\ StepOf(x) < StepOf(y)
    \/ x[3] = y[3] /\ StepOf(x) = StepOf(y) /\ StepOf(x) \in {2, 3}
\* The calls made for template i, the creation of the staging root apart.
CallsFor(i) == {k \in 2..Len(oplog) : oplog[k][3] = i}

\* C27: in a run that is not a dry run the filesystem calls made for one
\* template are, in this order, the creation of the destination's parents, the
\* displacement of the occupant if there is one, the copy to the staged path
\* (its parents created first), the mode if one is declared, the symlink; the
\* calls of template i all precede those of template i + 1; and when the
\* symlink is about to be created nothing is at the destination, so creating
\* it adds the link and replaces nothing.
C27_StepOrder ==
    /\ []((InLink \/ pc = "done") /\ ~dry_run =>
            /\ oplog # <<>> => oplog[1] = <<"create_dir_all", stage_root, 1>>
            /\ \A a, b \in 2..Len(oplog) :
                  a < b => Precedes(oplog[a], oplog[b])
            /\ \A k \in 2..Len(oplog) : oplog[k][3] \in 1..Len(rendered)
            /\ \A i \in 1..Len(rendered) :
                  (i < idx /\ pc \notin {"begin"}) =>
                     /\ \E k \in CallsFor(i) : StepOf(oplog[k]) = 1
                     /\ \E k \in CallsFor(i) : oplog[k] = <<"copy", StageOf(i), i>>
                     /\ (\E k \in CallsFor(i) : StepOf(oplog[k]) = 4) <=> ModeOf(i).some
                     /\ \E k \in CallsFor(i) : oplog[k] = <<"symlink", DestOf(i), i>>
            /\ PastReconcile =>
                  ((\E k \in CallsFor(idx) : StepOf(oplog[k]) = 2)
                      <=> destination \in DOMAIN tplFs)
            /\ pc = "symlink" => destination \notin DOMAIN fs)
    /\ [][(pc = "symlink" /\ pc' = "loop") =>
             /\ destination \notin DOMAIN fs
             /\ fs' = Put(fs, destination, LinkEntry(stage_path))]_vars

\* The second of two templates has been linked, with a directory displaced and
\* a mode applied on the way.
C27_Witness ==
    /\ JustLinked
    /\ idx = 3
    /\ ModeOf(2).some
    /\ \E k \in CallsFor(2) : oplog[k][1] = "rename"
    /\ \E k \in CallsFor(1) : oplog[k][1] = "remove_file"
    /\ oplog[Len(oplog)] = <<"symlink", DestOf(2), 2>>
    /\ fs[DestOf(2)] = LinkEntry(StageOf(2))

\* Entry e is in the backup directory next to d.
BackedUp(f, d, e) ==
    \E b \in DOMAIN f :
        /\ Len(b) = Len(d) + 1
        /\ Parent(Parent(b)) = Parent(d)
        /\ FileName(Parent(b)) = ".dotstrap-backups"
        /\ f[b] = e

\* C28: in every state of a link_templates invocation that is not a dry run,
\* the state a failed step leaves behind included, every regular file that
\* was at a destination when the invocation started is still on disk with its
\* content: at the destination while its template has not been reconciled,
\* and as an entry of the .dotstrap-backups directory next to it afterwards.
C28_NoDataLoss ==
    ((InLink \/ pc = "done") /\ ~dry_run) =>
        \A i \in DOMAIN rendered :
            LET d == DestOf(i)
            IN  (d \in DOMAIN runFs /\ runFs[d].kind = "file") =>
                  /\ \/ d \in DOMAIN fs /\ fs[d] = runFs[d]
                     \/ BackedUp(fs, d, runFs[d])
                  /\ (pc = "begin" \/ \A j \in 1..idx : j \in DOMAIN rendered => DestOf(j) # d) =>
                        d \in DOMAIN fs /\ fs[d] = runFs[d]

\* A run fails after the first template's file was moved to its backup
\* directory and before the second template's file was touched.
C28_Witness ==
    /\ pc = "done"
    /\ result = "err"
    /\ ~dry_run
    /\ Len(rendered) = 2
    /\ DestOf(1) # DestOf(2)
    /\ DestOf(1) \in DOMAIN runFs /\ runFs[DestOf(1)].kind = "file"
    /\ DestOf(2) \in DOMAIN runFs /\ runFs[DestOf(2)].kind = "file"
    /\ DestOf(1) \notin DOMAIN fs
    /\ BackedUp(fs, DestOf(1), runFs[DestOf(1)])
    /\ fs[DestOf(2)] = runFs[DestOf(2)]

\* ------------------------------------------------------------- properties of the scratch area
Scratch(f) == Subtree(f, TmpDir)
LastStage == IF trace = <<>> THEN "home" ELSE trace[Len(trace)]

\* C29: the temporary directory render_templates creates holds every file
\* rendered so far while rendering goes on, is there with every rendered file
\* throughout the linking stage and until run_with_executor returns, and is
\* gone, with all that was in it, once run_with_executor has returned: with
\* its report, or with the error of the render, link or package stage.
C29_ScratchLifetime ==
    /\ stage = "rendering" =>
          /\ TmpDir \in DOMAIN fs
          /\ \A i \in 1..(idx - 1) :
                RenderedPath(i) \in DOMAIN fs /\ fs[RenderedPath(i)].kind = "file"
    /\ stage \in {"link", "packages", "brew", "report"} =>
          /\ TmpDir \in DOMAIN fs /\ fs[TmpDir].kind = "dir"
          /\ Len(rendered) = Len(manifest)
          /\ \A i \in DOMAIN rendered :
                /\ IsPrefix(TmpDir, rendered[i].rendered_path)
                /\ rendered[i].rendered_path \in DOMAIN fs
                /\ fs[rendered[i].rendered_path] = FileEntry(render(i, context), CreateMode)
    /\ stage \in {"finished", "failed"} => Scratch(fs) = {}

\* link_templates failed after it had staged and linked the first template:
\* the scratch area is gone and the staged copy is not.
C29_Witness ==
    /\ stage = "failed"
    /\ LastStage = "link"
    /\ error = "Io"
    /\ Len(rendered) = 2
    /\ idx = 2
    /\ StageOf(1) \in DOMAIN fs
    /\ Scratch(fs) = {}
    /\ Scratch(tplFs) # {}

C29_WitnessRender ==
    /\ stage = "failed"
    /\ LastStage = "render"
    /\ call.fn = "render_templates"
    /\ Len(call.reads) = 2
    /\ Scratch(fs) = {}

C29_WitnessPackages ==
    /\ stage = "failed"
    /\ LastStage = "packages"
    /\ error = "CommandFailed"
    /\ ~dry_run
    /\ Scratch(fs) = {}
    /\ Scratch(tplFs) # {}

C29_WitnessSuccess ==
    /\ stage = "finished"
    /\ ~dry_run
    /\ report.returned
    /\ Len(rendered) = 2
    /\ Scratch(fs) = {}
    /\ Scratch(tplFs) # {}

\* ------------------------------------------------------------- order of secret resolution
\* What load_secrets returns for the inputs of the last call when the entries
\* are iterated in order o.
Reordered(o) == load_secrets(call.file, o, call.env, call.files)

\* C30: for a fixed declaration, environment and file contents, whether
\* load_secrets succeeds, and the mapping it returns when it does, are the
\* same for every order of iteration; it succeeds exactly when every entry
\* resolves or is an optional env entry whose variable is unset.
C30_OrderIndependent ==
    call.fn = "load_secrets" =>
        /\ \A o \in Orders(DOMAIN call.file.entries) :
              /\ Reordered(o).ok = ret.ok
              /\ ret.ok => Reordered(o).val = ret.val
        /\ call.file.state = "yaml" => (ret.ok <=> Failing = {})
        /\ ret.ok => DOMAIN ret.val = Declared \ OptionalUnset

\* Two secrets, the first iterated an optional one that is unset: the other
\* order gives the same mapping.
C30_Witness ==
    /\ call.fn = "load_secrets"
    /\ call.order = <<"beta", "alpha">>
    /\ OptionalUnset = {"beta"}
    /\ call.file.entries["alpha"].from = "file"
    /\ ret.ok
    /\ DOMAIN ret.val = {"alpha"}
    /\ Reordered(<<"alpha", "beta">>) = ret

\* Two secrets that both fail: the call fails in either order, with the error
\* of the entry iterated first.
C30_WitnessFailing ==
    /\ call.fn = "load_secrets"
    /\ Cardinality(Failing) = 2
    /\ ~ret.ok
    /\ \E o \in Orders(Declared) : ~Reordered(o).ok /\ Reordered(o).err # ret.err

====
